---- MODULE Spec2Model ----
(***************************************************************************)
(* Model of generate_artifacts.py: the annotation index, the streamed      *)
(* id match, the record merge, and the two review projections.             *)
(*                                                                         *)
(* Python values are modelled as follows.  A dict is a function from its   *)
(* keys (strings) to its values, a list is a sequence.  A taxonomy code is *)
(* a natural number, the rank of the code string in the order sorted()     *)
(* uses; the text "; ".join(...) builds is the sequence of its codes with  *)
(* the separator token between them, so the empty text is <<>>.  Message   *)
(* texts are strings.  The value of leading_question_classifications is    *)
(* wrapped (PyNone / PyList) so that None and a list can be told apart.    *)
(***************************************************************************)
EXTENDS Integers, Sequences, FiniteSets, TLC

\* ------------------------------------------------------------------ bounds
MaxConvLen == 3
MaxTaxLen == 2
MaxLqLen == 2
MaxStreamLen == 2
MaxAnnotations == 2

\* --------------------------------------------------------- configuration
DATASET_VERSION == "1.0.0"

\* DATASET_MAPPING, in the enumeration order of the dict literal.
SourceOrder == <<"lmsys", "wildchat">>

DATASET_MAPPING ==
    [lmsys    |-> [path |-> "lmsys/lmsys-chat-1m", id_field |-> "conversation_id"],
     wildchat |-> [path |-> "allenai/WildChat-1M", id_field |-> "conversation_hash"]]

KnownSources == DOMAIN DATASET_MAPPING

SPECIALTIES_MAP ==
    <<"General Health", "Mental Health", "Allergy and Immunology",
      "Cardiology", "Dermatology", "Endocrinology",
      "Gastroenterology", "Hematology/Oncology", "Infectious Disease",
      "Nephrology", "Neurology", "Obstetrics and Gynecology (OB/GYN)",
      "Ophthalmology", "Fitness/Orthopedics/Sports Medicine",
      "Otolaryngology (ENT)", "Pediatrics", "Pulmonology",
      "Rheumatology", "Urology", "Dentistry",
      "Diet and Nutrition", "Not a Health Conversation">>

\* The three output files.
OUTPUT_DATASET_PATH == "dataset.jsonl"
OUTPUT_FULL_REVIEW_CSV == "full_review.csv"
OUTPUT_SYCOPHANCY_REVIEW_CSV == "sycophancy_review.csv"
Outputs == {OUTPUT_DATASET_PATH, OUTPUT_FULL_REVIEW_CSV, OUTPUT_SYCOPHANCY_REVIEW_CSV}

\* ------------------------------------------------------- Python helpers
\* dict.get(k, default)
Get(d, k, default) == IF k \in DOMAIN d THEN d[k] ELSE default

\* None and a list, as values of one dict key.
PyNone == [tag |-> "None"]
PyList(l) == [tag |-> "list", items |-> l]

\* Truth value of leading_question_classifications (line 162).
Truthy(v) == v.tag = "list" /\ v.items # <<>>

\* list[i] with Python's indexing: 0-based, negative indices count from the
\* end, anything else raises IndexError.
IndexOk(l, i) == -Len(l) <= i /\ i < Len(l)
Index(l, i) == IF i >= 0 THEN l[i + 1] ELSE l[Len(l) + i + 1]

\* sorted(codes): insertion into an already sorted list.
RECURSIVE Insert(_, _)
Insert(x, s) ==
    IF s = <<>> THEN <<x>>
    ELSE IF x <= Head(s) THEN <<x>> \o s
    ELSE <<Head(s)>> \o Insert(x, Tail(s))

RECURSIVE Sorted(_)
Sorted(s) == IF s = <<>> THEN <<>> ELSE Insert(Head(s), Sorted(Tail(s)))

\* "; ".join(codes)
Separator == 0

RECURSIVE Join(_)
Join(s) ==
    IF s = <<>> THEN <<>>
    ELSE IF Len(s) = 1 THEN s
    ELSE <<Head(s), Separator>> \o Join(Tail(s))

\* ------------------------------------------------------------ the merge
\* A variant of Update in which the keys already present win.
UpdateKeepExisting(d, e) == d @@ e

\* d.update(e): the keys of e win.
Update(d, e) == e @@ d

\* d[k] = v
SetItem(d, k, v) == (k :> v) @@ d

\* Lines 140-143.  The result names the three dicts as they are afterwards:
\* the copy that was updated, and the two inputs.
MergeRecord(source_record, annotation_data) ==
    [final_record    |-> SetItem(Update(source_record, annotation_data),
                                 "dataset_version", DATASET_VERSION),
     source_record   |-> source_record,
     annotation_data |-> annotation_data]

\* ------------------------------------------------------- TurnProjector
\* Line 153.
TaxonomyByUserTurn(final_record) ==
    LET items == Get(final_record, "taxonomy_messages_classified", <<>>)
    IN  [i \in 0 .. Len(items) - 1 |->
            Join(Sorted(Get(items[i + 1], "taxonomy_codes", <<>>)))]

\* A variant of NextUserTurnIdx that counts every turn.
NextUserTurnIdxEveryTurn(user_turn_idx, role) == user_turn_idx + 1

\* Line 159: the running counter after a turn of the given role.
NextUserTurnIdx(user_turn_idx, role) ==
    IF role = "user" THEN user_turn_idx + 1 ELSE user_turn_idx

\* Line 157.
TurnTaxCodes(taxonomy_by_user_turn, user_turn_idx, role) ==
    IF role = "user" THEN Get(taxonomy_by_user_turn, user_turn_idx, <<>>) ELSE <<>>

\* Lines 155-159, from turn index turn_idx on; yields the rows appended and
\* the final value of the running counter.
RECURSIVE FullReviewLoop(_, _, _, _, _)
FullReviewLoop(head, conversation, taxonomy_by_user_turn, turn_idx, user_turn_idx) ==
    IF turn_idx >= Len(conversation)
    THEN [rows |-> <<>>, user_turn_idx |-> user_turn_idx]
    ELSE LET turn == conversation[turn_idx + 1]
             role == Get(turn, "role", "None")
             message == Get(turn, "content", "")
             row == [conv_id   |-> head.conv_id,
                     web_url   |-> head.web_url,
                     specialty |-> head.specialty_str,
                     turn_idx  |-> turn_idx,
                     role      |-> role,
                     message   |-> message,
                     tax_codes |-> TurnTaxCodes(taxonomy_by_user_turn, user_turn_idx, role)]
             rest == FullReviewLoop(head, conversation, taxonomy_by_user_turn,
                                    turn_idx + 1, NextUserTurnIdx(user_turn_idx, role))
         IN  [rows |-> <<row>> \o rest.rows, user_turn_idx |-> rest.user_turn_idx]

\* Lines 148-151.
RowHead(final_record) ==
    LET specialty_code == Get(final_record, "specialty_conversation_classification", 0)
    IN  [conv_id       |-> Get(final_record, "conversation_id", "None"),
         web_url       |-> Get(final_record, "web_url", "N/A"),
         specialty_str |-> IF specialty_code \in DOMAIN SPECIALTIES_MAP
                           THEN SPECIALTIES_MAP[specialty_code] ELSE "N/A"]

\* -------------------------------------------------- SycophancyProjector
\* A variant of LqCounterStep that counts every turn.
LqCounterStepEveryTurn(lq_user_turn_counter, role) == lq_user_turn_counter + 1

\* Lines 170 and 174: the local counter after the re-scan has passed a turn
\* of the given role that is not the referenced one.
LqCounterStep(lq_user_turn_counter, role) ==
    IF role = "user" THEN lq_user_turn_counter + 1 ELSE lq_user_turn_counter

\* Lines 168-174: the re-scan of the conversation from turn i on.
RECURSIVE LqTaxCodes(_, _, _, _, _)
LqTaxCodes(conversation, taxonomy_by_user_turn, turn_index, i, lq_user_turn_counter) ==
    IF i >= Len(conversation) THEN <<>>
    ELSE LET role == Get(conversation[i + 1], "role", "None")
         IN  IF role = "user" /\ i = turn_index
             THEN Get(taxonomy_by_user_turn, lq_user_turn_counter, <<>>)
             ELSE LqTaxCodes(conversation, taxonomy_by_user_turn, turn_index,
                             i + 1, LqCounterStep(lq_user_turn_counter, role))

\* Line 166: does the expression raise IndexError?
UserMessageRaises(conversation, turn_index) ==
    turn_index < Len(conversation) /\ ~IndexOk(conversation, turn_index)

UserMessage(conversation, turn_index) ==
    IF turn_index < Len(conversation)
    THEN Get(Index(conversation, turn_index), "content", "None")
    ELSE "TEXT NOT FOUND"

\* Line 167: does the expression raise IndexError?
PriorAssistantMessageRaises(conversation, turn_index) ==
    turn_index > 0 /\ ~IndexOk(conversation, turn_index - 1)

PriorAssistantMessage(conversation, turn_index) ==
    IF turn_index > 0
    THEN Get(Index(conversation, turn_index - 1), "content", "None")
    ELSE ""

\* Lines 165-179 for one qualifying entry: whether an exception is raised,
\* and otherwise the row appended.
LqRow(head, conversation, taxonomy_by_user_turn, lq_item) ==
    LET turn_index == lq_item.user_message_original_turn_index
    IN  IF \/ UserMessageRaises(conversation, turn_index)
           \/ PriorAssistantMessageRaises(conversation, turn_index)
        THEN [raised |-> TRUE]
        ELSE [raised |-> FALSE,
              row |-> [conv_id        |-> head.conv_id,
                       web_url        |-> head.web_url,
                       turn_index     |-> turn_index,
                       prior_assistant_message |->
                           PriorAssistantMessage(conversation, turn_index),
                       user_message   |-> UserMessage(conversation, turn_index),
                       lq_tax_codes   |-> LqTaxCodes(conversation, taxonomy_by_user_turn,
                                                     turn_index, 0, 0),
                       classification |-> Get(lq_item, "classification", "None")]]

\* Line 164.
Qualifies(lq_item) == Get(lq_item, "classification", "None") # "N"

\* Lines 163-179, from list position k on: the rows appended, and whether
\* the loop was left by an exception.
RECURSIVE LqLoop(_, _, _, _, _)
LqLoop(head, conversation, taxonomy_by_user_turn, items, k) ==
    IF k > Len(items) THEN [rows |-> <<>>, raised |-> FALSE]
    ELSE IF ~Qualifies(items[k])
         THEN LqLoop(head, conversation, taxonomy_by_user_turn, items, k + 1)
         ELSE LET r == LqRow(head, conversation, taxonomy_by_user_turn, items[k])
              IN  IF r.raised THEN [rows |-> <<>>, raised |-> TRUE]
                  ELSE LET rest == LqLoop(head, conversation, taxonomy_by_user_turn,
                                          items, k + 1)
                       IN  [rows |-> <<r.row>> \o rest.rows, raised |-> rest.raised]

\* Lines 161-179.
SycophancyRows(final_record, taxonomy_by_user_turn) ==
    LET lq == Get(final_record, "leading_question_classifications", PyNone)
    IN  IF Truthy(lq)
        THEN LqLoop(RowHead(final_record), final_record["conversation"],
                    taxonomy_by_user_turn, lq.items, 1)
        ELSE [rows |-> <<>>, raised |-> FALSE]

\* ------------------------------------------------------ AnnotationIndex
EmptyDict == [k \in {} |-> k]

\* Line 80.
Accepted(annotation_record) ==
    /\ "conversation_id" \in DOMAIN annotation_record
    /\ annotation_record["conversation_id"] # ""
    /\ Get(annotation_record, "dataset_source", "None") \in KnownSources

\* Line 82, on a defaultdict(set).
AddTarget(targets, source, conv_id) ==
    IF source \in DOMAIN targets
    THEN [targets EXCEPT ![source] = @ \cup {conv_id}]
    ELSE (source :> {conv_id}) @@ targets

\* Lines 77-82, from entry k of the annotation dataset on.
RECURSIVE LoadLoop(_, _, _, _)
LoadLoop(annotation_dataset, k, by_id, targets) ==
    IF k > Len(annotation_dataset)
    THEN [annotations_by_id |-> by_id, target_ids_by_source |-> targets]
    ELSE LET annotation_record == annotation_dataset[k]
         IN  IF Accepted(annotation_record)
             THEN LoadLoop(annotation_dataset, k + 1,
                           SetItem(by_id, annotation_record["conversation_id"],
                                   annotation_record),
                           AddTarget(targets, annotation_record["dataset_source"],
                                     annotation_record["conversation_id"]))
             ELSE LoadLoop(annotation_dataset, k + 1, by_id, targets)

\* ---------------------------------------------------------- StreamMatcher
\* Line 139.
Matches(source_record, id_field, target_ids) ==
    id_field \in DOMAIN source_record /\ source_record[id_field] \in target_ids

\* Variants of RemoveId: one removes nothing, one empties the set.
RemoveIdKeep(target_ids, record_id) == target_ids
RemoveIdClear(target_ids, record_id) == {}

\* Line 181.
RemoveId(target_ids, record_id) == target_ids \ {record_id}

\* A variant of StopScan that never leaves the loop.
StopScanNever(target_ids) == FALSE

\* Line 182.
StopScan(target_ids) == target_ids = {}

\* -------------------------------------------------------------- write_csv
\* Lines 94-104: the files that exist and the errors printed afterwards.
WriteCsv(filepath, ok, files, errors) ==
    IF ok THEN [created |-> files \cup {filepath}, printed_errors |-> errors]
    ELSE [created |-> files, printed_errors |-> errors \cup {filepath}]

\* ------------------------------------------------------------------ inputs
SeqsUpTo(S, n) == UNION {[1 .. k -> S] : k \in 0 .. n}

Roles == {"user", "assistant"}
Messages == <<"m0", "m1", "m2", "m3", "m4", "m5">>

\* The conversation with the given roles; turn k carries the text Messages[k].
ConversationOf(roles) ==
    [k \in 1 .. Len(roles) |-> [role |-> roles[k], content |-> Messages[k]]]

TaxonomyOf(code_lists) ==
    [k \in 1 .. Len(code_lists) |-> [taxonomy_codes |-> code_lists[k]]]

LqItem(t, c) == [user_message_original_turn_index |-> t, classification |-> c]

Ids == {"a", "b"}

\* Annotation fields other than the id and the source tag.
AnnotationPayloads ==
    { [specialty_conversation_classification |-> 4,
       taxonomy_messages_classified |-> TaxonomyOf(<< <<2, 1>> >>),
       leading_question_classifications |-> PyList(<<LqItem(2, "Y"), LqItem(0, "N")>>)],
      [specialty_conversation_classification |-> 99,
       leading_question_classifications |-> PyNone,
       dataset_version |-> "0.5", language |-> "en"],
      [specialty_conversation_classification |-> 1,
       taxonomy_messages_classified |-> TaxonomyOf(<<>>),
       leading_question_classifications |-> PyList(<<LqItem(3, "Y")>>)] }

AnnotationRecords ==
    { ("conversation_id" :> id) @@ ("dataset_source" :> source) @@ payload :
        id \in Ids, source \in KnownSources \cup {"other"}, payload \in AnnotationPayloads }
    \cup { [dataset_source |-> "lmsys", specialty_conversation_classification |-> 4],
           [conversation_id |-> "", dataset_source |-> "wildchat"] }

AnnotationDatasets == SeqsUpTo(AnnotationRecords, MaxAnnotations)

\* Source-record fields other than the id.
SourceBodies ==
    { [conversation |-> ConversationOf(<<"user", "assistant", "user">>)],
      [conversation |-> ConversationOf(<<"assistant">>),
       dataset_version |-> "0.9", language |-> "English", model |-> "vicuna-13b"] }

SourceRecords(source) ==
    { (DATASET_MAPPING[source].id_field :> id) @@ body : id \in Ids, body \in SourceBodies }
    \cup { [conversation |-> <<>>] }

\* ------------------------------------------------------------------- state
VARIABLES
    pc,                      \* position in main()
    exception,               \* what ended the process early, if anything
    loaded,                  \* what load_annotations returned
    annotations_by_id,
    target_ids_by_source,
    source_idx,              \* position of the outer loop in DATASET_MAPPING
    streamed,                \* per source, the records its stream has yielded
    source_record,           \* the inner loop's variable
    fout,                    \* the lines of the primary dataset
    matched,                 \* per line of fout, the match that produced it
    found_count,
    initial_total_count,
    full_review_rows,
    sycophancy_review_rows,
    user_turn_idx,
    taxonomy_by_user_turn,
    attempted,               \* output files the run has tried to open
    created,                 \* output files that exist
    printed_errors,          \* output files write_csv reported an error for
    missing_report           \* per source, the ids printed as not found

vars == <<pc, exception, loaded, annotations_by_id, target_ids_by_source, source_idx,
          streamed, source_record, fout, matched, found_count, initial_total_count,
          full_review_rows, sycophancy_review_rows, user_turn_idx,
          taxonomy_by_user_turn, attempted, created, printed_errors, missing_report>>

Terminal == {"done", "returned", "exited", "crashed"}

Init ==
    /\ pc = "load"
    /\ exception = "none"
    /\ loaded = [annotations_by_id |-> EmptyDict, target_ids_by_source |-> EmptyDict]
    /\ annotations_by_id = EmptyDict
    /\ target_ids_by_source = EmptyDict
    /\ source_idx = 1
    /\ streamed = [source \in KnownSources |-> <<>>]
    /\ source_record = EmptyDict
    /\ fout = <<>>
    /\ matched = <<>>
    /\ found_count = 0
    /\ initial_total_count = 0
    /\ full_review_rows = <<>>
    /\ sycophancy_review_rows = <<>>
    /\ user_turn_idx = 0
    /\ taxonomy_by_user_turn = EmptyDict
    /\ attempted = {}
    /\ created = {}
    /\ printed_errors = {}
    /\ missing_report = EmptyDict

\* ----------------------------------------------------------------- actions
\* Lines 114-122, load_annotations succeeding on some annotation dataset.
LoadAnnotations ==
    /\ pc = "load"
    /\ \E annotation_dataset \in AnnotationDatasets :
         LET r == LoadLoop(annotation_dataset, 1, EmptyDict, EmptyDict)
         IN  /\ loaded' = r
             /\ annotations_by_id' = r.annotations_by_id
             /\ target_ids_by_source' = r.target_ids_by_source
             /\ IF DOMAIN r.annotations_by_id = {}
                THEN /\ pc' = "returned"
                     /\ UNCHANGED initial_total_count
                ELSE /\ pc' = "open"
                     /\ initial_total_count' = Cardinality(DOMAIN r.annotations_by_id)
    /\ UNCHANGED <<exception, source_idx, streamed, source_record, fout, matched,
                   found_count, full_review_rows, sycophancy_review_rows,
                   user_turn_idx, taxonomy_by_user_turn, attempted, created,
                   printed_errors, missing_report>>

\* Lines 83-87: the annotation file cannot be downloaded or parsed.
LoadFails ==
    /\ pc = "load"
    /\ pc' = "exited"
    /\ exception' = "SystemExit"
    /\ UNCHANGED <<loaded, annotations_by_id, target_ids_by_source, source_idx,
                   streamed, source_record, fout, matched, found_count,
                   initial_total_count, full_review_rows, sycophancy_review_rows,
                   user_turn_idx, taxonomy_by_user_turn, attempted, created,
                   printed_errors, missing_report>>

\* Line 126: open() of the primary dataset, outside any try.
OpenDataset ==
    /\ pc = "open"
    /\ attempted' = attempted \cup {OUTPUT_DATASET_PATH}
    /\ \E ok \in BOOLEAN :
         IF ok
         THEN /\ created' = created \cup {OUTPUT_DATASET_PATH}
              /\ pc' = "select"
              /\ UNCHANGED exception
         ELSE /\ pc' = "crashed"
              /\ exception' = "IOError"
              /\ UNCHANGED created
    /\ UNCHANGED <<loaded, annotations_by_id, target_ids_by_source, source_idx,
                   streamed, source_record, fout, matched, found_count,
                   initial_total_count, full_review_rows, sycophancy_review_rows,
                   user_turn_idx, taxonomy_by_user_turn, printed_errors,
                   missing_report>>

\* Lines 127-135: the head of one iteration of the outer loop, or its end.
SelectSource ==
    /\ pc = "select"
    /\ IF source_idx > Len(SourceOrder)
       THEN /\ pc' = "csv_full"
            /\ UNCHANGED source_idx
       ELSE LET source == SourceOrder[source_idx]
                target_ids == Get(target_ids_by_source, source, {})
            IN  IF target_ids = {}
                THEN /\ source_idx' = source_idx + 1
                     /\ UNCHANGED pc
                ELSE /\ pc' = "scan"
                     /\ UNCHANGED source_idx
    /\ UNCHANGED <<exception, loaded, annotations_by_id, target_ids_by_source,
                   streamed, source_record, fout, matched, found_count,
                   initial_total_count, full_review_rows, sycophancy_review_rows,
                   user_turn_idx, taxonomy_by_user_turn, attempted, created,
                   printed_errors, missing_report>>

\* Lines 137-184: one iteration of the inner loop, on the record the stream
\* yields.
StreamRecord(rec) ==
    /\ pc = "scan"
    /\ LET source == SourceOrder[source_idx]
           id_field == DATASET_MAPPING[source].id_field
           target_ids == target_ids_by_source[source]
       IN  /\ Len(streamed[source]) < MaxStreamLen
           /\ streamed' = [streamed EXCEPT ![source] = Append(@, rec)]
           /\ IF Matches(rec, id_field, target_ids)
              THEN LET record_id == rec[id_field]
                       m == MergeRecord(rec, annotations_by_id[record_id])
                       final_record == m.final_record
                       tax == TaxonomyByUserTurn(final_record)
                       full == FullReviewLoop(RowHead(final_record),
                                              Get(final_record, "conversation", <<>>),
                                              tax, 0, 0)
                       syc == SycophancyRows(final_record, tax)
                       remaining == RemoveId(target_ids, record_id)
                   IN  /\ source_record' = m.source_record
                       /\ annotations_by_id' =
                              [annotations_by_id EXCEPT ![record_id] = m.annotation_data]
                       /\ fout' = Append(fout, final_record)
                       /\ matched' = Append(matched,
                              [source |-> source, record_id |-> record_id,
                               position |-> Len(streamed[source]) + 1])
                       /\ found_count' = found_count + 1
                       /\ taxonomy_by_user_turn' = tax
                       /\ user_turn_idx' = full.user_turn_idx
                       /\ full_review_rows' = full_review_rows \o full.rows
                       /\ sycophancy_review_rows' = sycophancy_review_rows \o syc.rows
                       /\ IF syc.raised
                          THEN /\ pc' = "crashed"
                               /\ exception' = "IndexError"
                               /\ UNCHANGED <<target_ids_by_source, source_idx>>
                          ELSE /\ target_ids_by_source' =
                                     [target_ids_by_source EXCEPT ![source] = remaining]
                               /\ UNCHANGED exception
                               /\ IF StopScan(remaining)
                                  THEN /\ pc' = "select"
                                       /\ source_idx' = source_idx + 1
                                  ELSE UNCHANGED <<pc, source_idx>>
              ELSE /\ source_record' = rec
                   /\ UNCHANGED <<pc, exception, annotations_by_id,
                                  target_ids_by_source, source_idx, fout, matched,
                                  found_count, full_review_rows,
                                  sycophancy_review_rows, user_turn_idx,
                                  taxonomy_by_user_turn>>
    /\ UNCHANGED <<loaded, initial_total_count, attempted, created, printed_errors,
                   missing_report>>

ReadRecord ==
    /\ pc = "scan"
    /\ \E rec \in SourceRecords(SourceOrder[source_idx]) : StreamRecord(rec)

\* Line 137: the stream is exhausted.
StreamEnd ==
    /\ pc = "scan"
    /\ pc' = "select"
    /\ source_idx' = source_idx + 1
    /\ UNCHANGED <<exception, loaded, annotations_by_id, target_ids_by_source,
                   streamed, source_record, fout, matched, found_count,
                   initial_total_count, full_review_rows, sycophancy_review_rows,
                   user_turn_idx, taxonomy_by_user_turn, attempted, created,
                   printed_errors, missing_report>>

\* Lines 190-192.
WriteFullReviewCsv ==
    /\ pc = "csv_full"
    /\ pc' = "csv_syc"
    /\ attempted' = attempted \cup {OUTPUT_FULL_REVIEW_CSV}
    /\ \E ok \in BOOLEAN :
         LET w == WriteCsv(OUTPUT_FULL_REVIEW_CSV, ok, created, printed_errors)
         IN  created' = w.created /\ printed_errors' = w.printed_errors
    /\ UNCHANGED <<exception, loaded, annotations_by_id, target_ids_by_source,
                   source_idx, streamed, source_record, fout, matched, found_count,
                   initial_total_count, full_review_rows, sycophancy_review_rows,
                   user_turn_idx, taxonomy_by_user_turn, missing_report>>

\* Lines 194-196.
WriteSycophancyCsv ==
    /\ pc = "csv_syc"
    /\ pc' = "report"
    /\ attempted' = attempted \cup {OUTPUT_SYCOPHANCY_REVIEW_CSV}
    /\ \E ok \in BOOLEAN :
         LET w == WriteCsv(OUTPUT_SYCOPHANCY_REVIEW_CSV, ok, created, printed_errors)
         IN  created' = w.created /\ printed_errors' = w.printed_errors
    /\ UNCHANGED <<exception, loaded, annotations_by_id, target_ids_by_source,
                   source_idx, streamed, source_record, fout, matched, found_count,
                   initial_total_count, full_review_rows, sycophancy_review_rows,
                   user_turn_idx, taxonomy_by_user_turn, missing_report>>

\* Lines 198-206: the ids printed as not found, per source.
MissingReport(targets) ==
    [source \in {s \in DOMAIN targets : targets[s] # {}} |-> targets[source]]

ReportMissing ==
    /\ pc = "report"
    /\ pc' = "done"
    /\ missing_report' = MissingReport(target_ids_by_source)
    /\ UNCHANGED <<exception, loaded, annotations_by_id, target_ids_by_source,
                   source_idx, streamed, source_record, fout, matched, found_count,
                   initial_total_count, full_review_rows, sycophancy_review_rows,
                   user_turn_idx, taxonomy_by_user_turn, attempted, created,
                   printed_errors>>

Next ==
    \/ LoadAnnotations
    \/ LoadFails
    \/ OpenDataset
    \/ SelectSource
    \/ ReadRecord
    \/ StreamEnd
    \/ WriteFullReviewCsv
    \/ WriteSycophancyCsv
    \/ ReportMissing

Spec == Init /\ [][Next]_vars

\* ------------------------------------------- one match, on bounded inputs
\* Every conversation, taxonomy sequence and leading-question list within the
\* bounds, for a single annotated conversation of the first source.
Conversations == {ConversationOf(roles) : roles \in SeqsUpTo(Roles, MaxConvLen)}

TaxCodeLists == {<<>>, <<3>>, <<2, 1>>}

TaxonomySequences == {TaxonomyOf(l) : l \in SeqsUpTo(TaxCodeLists, MaxTaxLen)}

LqItems == {LqItem(t, c) : t \in -1 .. MaxConvLen - 1, c \in {"N", "Y"}}

LqLists == SeqsUpTo(LqItems, MaxLqLen)

ProjAnnotationBase(tax) ==
    [conversation_id |-> "a", dataset_source |-> "lmsys",
     specialty_conversation_classification |-> 4,
     taxonomy_messages_classified |-> tax]

ProjAnnotations ==
    {ProjAnnotationBase(tax) : tax \in TaxonomySequences}
    \cup {("leading_question_classifications" :> lq) @@ ProjAnnotationBase(tax) :
            tax \in TaxonomySequences, lq \in {PyNone} \cup {PyList(l) : l \in LqLists}}

ProjSourceRecords == {[conversation_id |-> "a", conversation |-> c] : c \in Conversations}

\* The state main() is in when it starts streaming the first source, after
\* load_annotations returned one annotation and the primary dataset was opened.
InitProj ==
    /\ pc = "scan"
    /\ exception = "none"
    /\ \E annotation_record \in ProjAnnotations :
         LET r == LoadLoop(<<annotation_record>>, 1, EmptyDict, EmptyDict)
         IN  /\ loaded = r
             /\ annotations_by_id = r.annotations_by_id
             /\ target_ids_by_source = r.target_ids_by_source
             /\ initial_total_count = Cardinality(DOMAIN r.annotations_by_id)
    /\ source_idx = 1
    /\ streamed = [source \in KnownSources |-> <<>>]
    /\ source_record = EmptyDict
    /\ fout = <<>>
    /\ matched = <<>>
    /\ found_count = 0
    /\ full_review_rows = <<>>
    /\ sycophancy_review_rows = <<>>
    /\ user_turn_idx = 0
    /\ taxonomy_by_user_turn = EmptyDict
    /\ attempted = {OUTPUT_DATASET_PATH}
    /\ created = {OUTPUT_DATASET_PATH}
    /\ printed_errors = {}
    /\ missing_report = EmptyDict

ReadProjRecord ==
    /\ pc = "scan"
    /\ \E rec \in ProjSourceRecords : StreamRecord(rec)

NextProj == ReadProjRecord

SpecProj == InitProj /\ [][NextProj]_vars

\* ------------------------------------------------- vocabulary of the claims
\* Number of user-role turns before turn index t.
UserTurnsBefore(conversation, t) ==
    Cardinality({j \in 0 .. t - 1 : conversation[j + 1].role = "user"})

Occurrences(seq, x) == Cardinality({k \in 1 .. Len(seq) : seq[k] = x})

\* text is the codes in ascending order with the separator between them.
IsSortedJoinOf(text, codes) ==
    LET n == Len(codes)
        odd == [k \in 1 .. n |-> text[2 * k - 1]]
    IN  /\ Len(text) = IF n = 0 THEN 0 ELSE 2 * n - 1
        /\ \A k \in 1 .. n - 1 : text[2 * k] = Separator /\ odd[k] <= odd[k + 1]
        /\ \A k \in 1 .. n : Occurrences(odd, codes[k]) = Occurrences(codes, codes[k])

\* What the taxonomy field of the row of turn t has to be.
TaxonomyFieldOk(final_record, t, text) ==
    LET conversation == final_record["conversation"]
        tax == Get(final_record, "taxonomy_messages_classified", <<>>)
        i == UserTurnsBefore(conversation, t)
    IN  IF conversation[t + 1].role = "user" /\ i < Len(tax)
        THEN IsSortedJoinOf(text, tax[i + 1].taxonomy_codes)
        ELSE text = <<>>

\* The entries of leading_question_classifications that are not neutral.
NotNeutral(lq_item) == lq_item.classification # "N"

QualifyingItems(final_record) ==
    IF "leading_question_classifications" \in DOMAIN final_record
       /\ final_record["leading_question_classifications"].tag = "list"
    THEN SelectSeq(final_record["leading_question_classifications"].items, NotNeutral)
    ELSE <<>>

\* Number of full-review rows owed to the lines of fout before line i.
RECURSIVE FullOffset(_)
FullOffset(i) ==
    IF i <= 1 THEN 0 ELSE FullOffset(i - 1) + Len(fout[i - 1]["conversation"])

\* Number of sycophancy rows owed to the lines of fout before line i.
RECURSIVE SycOffset(_)
SycOffset(i) ==
    IF i <= 1 THEN 0 ELSE SycOffset(i - 1) + Len(QualifyingItems(fout[i - 1]))

InBounds(conversation, t) == t \in 0 .. Len(conversation) - 1

\* How often id was matched in the stream of source.
MergedCount(source, id) ==
    Cardinality({i \in 1 .. Len(matched) :
                    matched[i].source = source /\ matched[i].record_id = id})

\* The record a match was made on, as the stream yielded it.
StreamedRecord(i) == streamed[matched[i].source][matched[i].position]

\* The record the streams yielded last.
LastStreamed ==
    LET read == {k \in 1 .. Len(SourceOrder) : streamed[SourceOrder[k]] # <<>>}
        last == CHOOSE k \in read : \A j \in read : j <= k
    IN  IF read = {} THEN EmptyDict
        ELSE streamed[SourceOrder[last]][Len(streamed[SourceOrder[last]])]

\* ------------------------------------------------------------------ claims
\* C1: in the sycophancy projection, a non-neutral entry whose turn index is
\* outside 0 .. len(conversation)-1 never makes the run fail, and its row is
\* emitted with the user text "TEXT NOT FOUND".
C1_OutOfBoundsIndexYieldsSentinel ==
    /\ exception # "IndexError"
    /\ \A i \in 1 .. Len(fout) :
         LET items == QualifyingItems(fout[i])
         IN  \A k \in 1 .. Len(items) :
               ~InBounds(fout[i]["conversation"], items[k].user_message_original_turn_index)
               => /\ SycOffset(i) + k <= Len(sycophancy_review_rows)
                  /\ sycophancy_review_rows[SycOffset(i) + k].user_message
                        = "TEXT NOT FOUND"

\* C2: the taxonomy field of the full-review row of a user turn that is the
\* i-th user turn is the sorted, joined codes of taxonomy entry i, or empty
\* when there is no entry i; the field of any other turn is empty.
C2_FullReviewTaxonomyByUserOrdinal ==
    /\ Len(full_review_rows) = FullOffset(Len(fout) + 1)
    /\ \A i \in 1 .. Len(fout) :
         \A t \in 0 .. Len(fout[i]["conversation"]) - 1 :
           LET row == full_review_rows[FullOffset(i) + t + 1]
           IN  /\ row.turn_idx = t
               /\ row.role = fout[i]["conversation"][t + 1].role
               /\ TaxonomyFieldOk(fout[i], t, row.tax_codes)

\* A conversation that starts with a non-user turn, whose first user turn
\* carries two sorted codes and whose second user turn has no taxonomy entry.
C2_Witness ==
    \E i \in 1 .. Len(fout) :
      /\ Len(fout[i]["conversation"]) = 3
      /\ Len(fout[i]["taxonomy_messages_classified"]) = 1
      /\ full_review_rows[FullOffset(i) + 1].role = "assistant"
      /\ full_review_rows[FullOffset(i) + 2].tax_codes = <<1, Separator, 2>>
      /\ full_review_rows[FullOffset(i) + 3].role = "user"
      /\ full_review_rows[FullOffset(i) + 3].tax_codes = <<>>

\* C3: when the run completes, every id of a source's target set was either
\* merged and written exactly once from that source's stream, or is still in
\* the set and reported missing for that source; never both, never neither.
C3_MergedOnceOrReportedMissing ==
    pc = "done" =>
      /\ Len(fout) = Len(matched)
      /\ \A source \in KnownSources :
           \A id \in Get(loaded.target_ids_by_source, source, {}) :
             LET merged == MergedCount(source, id)
                 outstanding == id \in target_ids_by_source[source]
                 reported == id \in Get(missing_report, source, {})
             IN  /\ merged <= 1
                 /\ outstanding <=> reported
                 /\ (merged = 1) <=> ~reported

\* A completed run in which a source's stream yielded one target id twice and
\* never yielded another.
C3_Witness ==
    /\ pc = "done"
    /\ \E source \in DOMAIN missing_report :
         \E i \in 1 .. Len(matched) :
           /\ matched[i].source = source
           /\ Cardinality({k \in 1 .. Len(streamed[source]) :
                 Matches(streamed[source][k], DATASET_MAPPING[source].id_field,
                         {matched[i].record_id})}) = 2

\* What a step may do to the target sets: remove the id just matched in the
\* current source's stream, and nothing else.
C4_Step ==
    /\ DOMAIN target_ids_by_source' = DOMAIN target_ids_by_source
    /\ \A source \in DOMAIN target_ids_by_source :
         /\ target_ids_by_source'[source] \subseteq target_ids_by_source[source]
         /\ target_ids_by_source'[source] # target_ids_by_source[source]
            => /\ pc = "scan"
               /\ source = SourceOrder[source_idx]
               /\ Len(matched') = Len(matched) + 1
               /\ matched'[Len(matched')].source = source
               /\ target_ids_by_source[source] \ target_ids_by_source'[source]
                     = {matched'[Len(matched')].record_id}
         /\ \A i \in 1 .. Len(matched) :
              /\ matched[i].source = source
              /\ matched[i].record_id \notin target_ids_by_source[source]
              => matched[i].record_id \notin target_ids_by_source'[source]

\* C4: once the index is built, every step leaves each target set a subset
\* of its previous value, changes it only by removing the id just matched in
\* that source's stream, and never puts a removed id back.
C4_TargetSetsOnlyShrink == [][pc # "load" => C4_Step]_vars

\* A target set that has lost one id and still holds another.
C4_Witness ==
    \E source \in DOMAIN target_ids_by_source :
      /\ target_ids_by_source[source] # {}
      /\ target_ids_by_source[source] # loaded.target_ids_by_source[source]

\* C5: a source with no target ids is never streamed, and once a source's
\* target set is empty the last record read from its stream is the one whose
\* match emptied it.
C5_ScanStopsOnEmptyTargetSet ==
    \A source \in KnownSources :
      LET initial == Get(loaded.target_ids_by_source, source, {})
      IN  /\ initial = {} => streamed[source] = <<>>
          /\ initial # {} /\ target_ids_by_source[source] = {}
             => \E i \in 1 .. Len(matched) :
                  /\ matched[i].source = source
                  /\ matched[i].position = Len(streamed[source])

\* A completed run that left the first source's stream before the bound on
\* its length and never streamed the second source.
C5_Witness ==
    /\ pc = "done"
    /\ "lmsys" \in DOMAIN target_ids_by_source
    /\ target_ids_by_source["lmsys"] = {}
    /\ Len(streamed["lmsys"]) < MaxStreamLen
    /\ "wildchat" \notin DOMAIN target_ids_by_source
    /\ streamed["wildchat"] = <<>>

\* C6: the sycophancy rows of every merged record are one row per entry of
\* leading_question_classifications that is not classified 'N', in list
\* order, each with that entry's turn index and classification; none when
\* the list is missing, None or empty.
C6_OneRowPerNonNeutralEntry ==
    /\ Len(sycophancy_review_rows) = SycOffset(Len(fout) + 1)
    /\ \A i \in 1 .. Len(fout) :
         LET items == QualifyingItems(fout[i])
         IN  \A k \in 1 .. Len(items) :
               LET row == sycophancy_review_rows[SycOffset(i) + k]
               IN  /\ row.turn_index = items[k].user_message_original_turn_index
                   /\ row.classification = items[k].classification

\* C7: every line of the primary dataset has the keys of the source record
\* and of the annotation record, with the configured version under
\* dataset_version, the annotation's value under each of its other keys and
\* the source record's value elsewhere; the source record and the stored
\* annotation record are as they were before the merge.
C7_MergedRecordFields ==
    /\ annotations_by_id = loaded.annotations_by_id
    /\ source_record = LastStreamed
    /\ \A i \in 1 .. Len(fout) :
         LET src == StreamedRecord(i)
             ann == loaded.annotations_by_id[matched[i].record_id]
         IN  /\ DOMAIN fout[i] = DOMAIN src \cup DOMAIN ann \cup {"dataset_version"}
             /\ \A key \in DOMAIN fout[i] :
                  fout[i][key] = IF key = "dataset_version" THEN DATASET_VERSION
                                 ELSE IF key \in DOMAIN ann THEN ann[key]
                                 ELSE src[key]

\* A line merged from a source record and an annotation record that both
\* carry their own dataset_version and disagree on another shared key.
C7_Witness ==
    \E i \in 1 .. Len(fout) :
      LET src == StreamedRecord(i)
          ann == loaded.annotations_by_id[matched[i].record_id]
      IN  /\ "dataset_version" \in DOMAIN src \cap DOMAIN ann
          /\ "language" \in DOMAIN src \cap DOMAIN ann
          /\ src["language"] # ann["language"]
          /\ src["dataset_version"] # DATASET_VERSION
          /\ ann["dataset_version"] # DATASET_VERSION

\* C8: a failure to open or write any of the three output files is reported
\* and does not end the run, the other outputs are still attempted, and
\* nothing but a failure of the annotation source ends the process early.
C8_OutputFailureNeverEndsTheRun ==
    /\ pc \in {"exited", "crashed"} => exception = "SystemExit"
    /\ pc \in Terminal /\ attempted \ created # {}
       => /\ attempted = Outputs
          /\ attempted \ created \subseteq printed_errors

\* C9: a sycophancy row whose turn index is within the conversation carries
\* the taxonomy codes of the full-review row of that turn of the same
\* record; after a match the running counter is the number of user turns of
\* the conversation and the ordinal-to-codes mapping has one entry per
\* taxonomy entry, whatever the re-scans did.
C9_RescanAgreesWithRunningCounter ==
    /\ \A i \in 1 .. Len(fout) :
         \A k \in 1 .. Len(QualifyingItems(fout[i])) :
           SycOffset(i) + k <= Len(sycophancy_review_rows)
           => LET row == sycophancy_review_rows[SycOffset(i) + k]
              IN  InBounds(fout[i]["conversation"], row.turn_index)
                  => row.lq_tax_codes
                       = full_review_rows[FullOffset(i) + row.turn_index + 1].tax_codes
    /\ fout # <<>>
       => LET final_record == fout[Len(fout)]
              conversation == final_record["conversation"]
          IN  /\ user_turn_idx = UserTurnsBefore(conversation, Len(conversation))
              /\ DOMAIN taxonomy_by_user_turn
                    = 0 .. Len(Get(final_record, "taxonomy_messages_classified", <<>>)) - 1
              /\ \A t \in 0 .. Len(conversation) - 1 :
                   LET i == UserTurnsBefore(conversation, t)
                   IN  conversation[t + 1].role = "user" /\ i \in DOMAIN taxonomy_by_user_turn
                       => full_review_rows[FullOffset(Len(fout)) + t + 1].tax_codes
                             = taxonomy_by_user_turn[i]

\* A record with more user turns than taxonomy entries and a non-user turn
\* first, with one row for a user turn that has codes
\* and one for a non-user turn.
C9_Witness ==
    \E i \in 1 .. Len(fout) :
      LET conversation == fout[i]["conversation"]
          rows == {sycophancy_review_rows[SycOffset(i) + k] :
                      k \in 1 .. Len(QualifyingItems(fout[i]))}
      IN  /\ SycOffset(i + 1) <= Len(sycophancy_review_rows)
          /\ Len(fout[i]["taxonomy_messages_classified"])
                < UserTurnsBefore(conversation, Len(conversation))
          /\ \E row \in rows :
               /\ row.turn_index > 0
               /\ InBounds(conversation, row.turn_index)
               /\ conversation[1].role # "user"
               /\ row.lq_tax_codes # <<>>
          /\ \E row \in rows :
               /\ InBounds(conversation, row.turn_index)
               /\ conversation[row.turn_index + 1].role # "user"

\* C10: the number of merged records written never exceeds the number of
\* annotation records in the index, and every merged record's dataset_source
\* is the source in whose stream it was matched.
C10_FoundCountWithinIndex ==
    /\ found_count <= initial_total_count
    /\ \A i \in 1 .. Len(fout) : fout[i]["dataset_source"] = matched[i].source

====
